---- MODULE Spec2Model ----
(***************************************************************************)
(* Object-centric directed graph (OCDG) construction, src/objects/ocdg.rs. *)
(* generate_ocdg builds, from an object-centric event log and a selection  *)
(* of relation kinds, a directed graph over the objects of the log with,   *)
(* for every (source, target, relation) triple, the set of justifying      *)
(* event ids.                                                              *)
(*                                                                         *)
(* Modelling conventions                                                   *)
(*  - IntMap/IntSet are functions/sets; the nested maps iedges and irels   *)
(*    are flattened to functions on the pair <<source, target>> (all       *)
(*    levels of the nesting are created together by apply_new_edges).      *)
(*  - log.events is its iteration order: the i-th event iterated has event *)
(*    id i (ids are only ever compared for equality).                      *)
(*  - hash-set/hash-map iteration inside one sequential step is taken in   *)
(*    ascending id order; the order of the parallel tasks is free.         *)
(*  - a Rust panic (unwrap of None, Index of a missing key) moves pc to    *)
(*    "aborted".                                                           *)
(***************************************************************************)
EXTENDS Integers, Sequences, FiniteSets, TLC

(***************************************************************************)
(* Bounds                                                                  *)
(***************************************************************************)
MaxObj == 3
MaxEv == 2
LongObj == 2
LongEv == 5

Types == {"A", "B"}
NoOid == 0

(***************************************************************************)
(* Generic helpers                                                         *)
(***************************************************************************)
EmptyMap == [x \in {} |-> 0]

Put(f, k, v) == [x \in (DOMAIN f) \cup {k} |-> IF x = k THEN v ELSE f[x]]

Range(s) == {s[i] : i \in DOMAIN s}

First(s) == s[1]

Last(s) == s[Len(s)]

Min(S) == CHOOSE x \in S : \A y \in S : x <= y

RECURSIVE SortedSeq(_)
SortedSeq(S) == IF S = {} THEN << >>
                ELSE <<Min(S)>> \o SortedSeq(S \ {Min(S)})

RECURSIVE Flatten(_)
Flatten(ss) == IF ss = << >> THEN << >> ELSE Head(ss) \o Flatten(Tail(ss))

Reverse(s) == [i \in 1..Len(s) |-> s[Len(s) + 1 - i]]

(***************************************************************************)
(* enum Relations                                                          *)
(***************************************************************************)
Relations == {"INTERACTS", "COLIFE", "COBIRTH", "CODEATH", "DESCENDANTS",
              "INHERITANCE", "CONSUMES", "SPLIT", "MERGE", "MINION",
              "PEELER", "ENGAGES"}

relation_type(r) ==
    CASE r = "INTERACTS" -> 1
      [] r = "DESCENDANTS" -> 1
      [] r = "SPLIT" -> 3
      [] OTHER -> 2

relation_index(r) ==
    CASE r = "INTERACTS" -> 0
      [] r = "COLIFE" -> 1
      [] r = "COBIRTH" -> 2
      [] r = "CODEATH" -> 3
      [] r = "DESCENDANTS" -> 4
      [] r = "INHERITANCE" -> 5
      [] r = "CONSUMES" -> 6
      [] r = "SPLIT" -> 7
      [] r = "MERGE" -> 8
      [] r = "MINION" -> 9
      [] r = "PEELER" -> 10
      [] r = "ENGAGES" -> 11

\* relations.iter(): the selection in a fixed order
RelSeq(rels) ==
    LET idx == SortedSeq({relation_index(r) : r \in rels})
    IN  [i \in 1..Len(idx) |-> CHOOSE r \in rels : relation_index(r) = idx[i]]

(***************************************************************************)
(* enum EventAdd                                                           *)
(***************************************************************************)
SINGLE(eid) == <<"SINGLE", eid>>

MULTI(set) == <<"MULTI", set>>

(***************************************************************************)
(* struct NodeInfo, struct Ocdg                                            *)
(***************************************************************************)
NodeInfoDefault == [node_type |-> "", object_events |-> << >>]

OcdgDefault ==
    [net |-> [nodes |-> << >>, edges |-> << >>],
     edge_attributes |-> EmptyMap,
     node_attributes |-> EmptyMap,
     inodes |-> EmptyMap,
     iedges |-> EmptyMap,
     irels |-> EmptyMap]

\* petgraph: DiGraph::add_node / add_edge return the new index
add_node(net, w) == [net EXCEPT !.nodes = Append(@, w)]

add_edge(net, a, b, w) == [net EXCEPT !.edges = Append(@, <<a, b, w>>)]

\* petgraph: neighbors_directed(node, Outgoing) walks the out-edges of node,
\* most recently added first
neighbors_directed(net, node) ==
    LET out == SelectSeq(net.edges, LAMBDA e : e[1] = node)
    IN  Reverse([i \in 1..Len(out) |-> out[i][2]])

init_object_key(o, oid) ==
    [o EXCEPT !.node_attributes = Put(@, oid, NodeInfoDefault)]

add_eid_to_oe(o, oid, eid) ==
    LET cur == IF oid \in DOMAIN o.node_attributes
               THEN o.node_attributes[oid] ELSE NodeInfoDefault
    IN  [o EXCEPT !.node_attributes =
            Put(@, oid, [cur EXCEPT !.object_events = Append(@, eid)])]

(***************************************************************************)
(* Relations::execute_primitive                                            *)
(***************************************************************************)
execute_primitive_panics(rel, o, oid1, oid2) ==
    rel = "DESCENDANTS" /\ oid1 \notin DOMAIN o.node_attributes

\* mutant: DESCENDANTS asks for a source lifeline of length >= 1
execute_primitive_ge(rel, o, oid1, oid2, eid) ==
    CASE rel = "INTERACTS" -> << <<oid1, oid2, SINGLE(eid), "INTERACTS">> >>
      [] rel = "DESCENDANTS" ->
            LET src_oe == o.node_attributes[oid1].object_events
            IN  IF oid2 \in DOMAIN o.node_attributes
                THEN IF Len(src_oe) >= 1
                        /\ Len(o.node_attributes[oid2].object_events) = 1
                     THEN << <<oid1, oid2, SINGLE(eid), "DESCENDANTS">> >>
                     ELSE << >>
                ELSE IF Len(src_oe) >= 1
                     THEN << <<oid1, oid2, SINGLE(eid), "DESCENDANTS">> >>
                     ELSE << >>
      [] OTHER -> << >>

execute_primitive(rel, o, oid1, oid2, eid) ==
    CASE rel = "INTERACTS" -> << <<oid1, oid2, SINGLE(eid), "INTERACTS">> >>
      [] rel = "DESCENDANTS" ->
            LET src_oe == o.node_attributes[oid1].object_events
            IN  IF oid2 \in DOMAIN o.node_attributes
                THEN IF Len(src_oe) > 1
                        /\ Len(o.node_attributes[oid2].object_events) = 1
                     THEN << <<oid1, oid2, SINGLE(eid), "DESCENDANTS">> >>
                     ELSE << >>
                ELSE IF Len(src_oe) > 1
                     THEN << <<oid1, oid2, SINGLE(eid), "DESCENDANTS">> >>
                     ELSE << >>
      [] OTHER -> << >>

(***************************************************************************)
(* Relations::execute_whole                                                *)
(***************************************************************************)
execute_whole_panics(rel, o, oid1, neighbors) ==
    \/ oid1 \notin DOMAIN o.node_attributes
    \/ /\ rel = "SPLIT"
       /\ \/ o.node_attributes[oid1].object_events = << >>
          \/ \E i \in DOMAIN neighbors :
                \/ neighbors[i] \notin DOMAIN o.net.nodes
                \/ o.net.nodes[neighbors[i]] \notin DOMAIN o.node_attributes
                \/ LET n == o.node_attributes[o.net.nodes[neighbors[i]]]
                   IN  /\ o.node_attributes[oid1].node_type = n.node_type
                       /\ n.object_events = << >>

\* mutant: SPLIT compares the source's last event with the neighbour's last
execute_whole_last(rel, o, oid1, neighbors) ==
    LET src_oe == o.node_attributes[oid1].object_events
        src_type == o.node_attributes[oid1].node_type
    IN  CASE rel = "SPLIT" ->
                LET src_e == Last(src_oe)
                    conforming_oid ==
                        {o.net.nodes[neighbors[i]] : i \in
                            {j \in DOMAIN neighbors :
                                LET n == o.node_attributes[o.net.nodes[neighbors[j]]]
                                IN  /\ src_type = n.node_type
                                    /\ src_e = Last(n.object_events)}}
                    targets == SortedSeq(conforming_oid)
                IN  IF Cardinality(conforming_oid) > 1
                    THEN [i \in 1..Len(targets) |->
                            <<oid1, targets[i], SINGLE(src_e), "SPLIT">>]
                    ELSE << >>
          [] OTHER -> << >>

\* mutant: SPLIT fires for a single conforming neighbour too
execute_whole_single(rel, o, oid1, neighbors) ==
    LET src_oe == o.node_attributes[oid1].object_events
        src_type == o.node_attributes[oid1].node_type
    IN  CASE rel = "SPLIT" ->
                LET src_e == Last(src_oe)
                    conforming_oid ==
                        {o.net.nodes[neighbors[i]] : i \in
                            {j \in DOMAIN neighbors :
                                LET n == o.node_attributes[o.net.nodes[neighbors[j]]]
                                IN  /\ src_type = n.node_type
                                    /\ src_e = First(n.object_events)}}
                    targets == SortedSeq(conforming_oid)
                IN  IF Cardinality(conforming_oid) >= 1
                    THEN [i \in 1..Len(targets) |->
                            <<oid1, targets[i], SINGLE(src_e), "SPLIT">>]
                    ELSE << >>
          [] OTHER -> << >>

execute_whole(rel, o, oid1, neighbors) ==
    LET src_oe == o.node_attributes[oid1].object_events
        src_type == o.node_attributes[oid1].node_type
    IN  CASE rel = "SPLIT" ->
                LET src_e == Last(src_oe)
                    conforming_oid ==
                        {o.net.nodes[neighbors[i]] : i \in
                            {j \in DOMAIN neighbors :
                                LET n == o.node_attributes[o.net.nodes[neighbors[j]]]
                                IN  /\ src_type = n.node_type
                                    /\ src_e = First(n.object_events)}}
                    targets == SortedSeq(conforming_oid)
                IN  IF Cardinality(conforming_oid) > 1
                    THEN [i \in 1..Len(targets) |->
                            <<oid1, targets[i], SINGLE(src_e), "SPLIT">>]
                    ELSE << >>
          [] OTHER -> << >>

(***************************************************************************)
(* Relations::execute                                                      *)
(***************************************************************************)
\* array_tool Intersect: the distinct elements of a that occur in b, in a's order
RECURSIVE intersect(_, _)
intersect(a, b) ==
    IF a = << >> THEN << >>
    ELSE LET rest == intersect(SubSeq(a, 1, Len(a) - 1), b)
             x == Last(a)
         IN  IF x \in Range(b) /\ x \notin Range(rest)
             THEN Append(rest, x) ELSE rest

\* mutant: the events walked are not collected
RECURSIVE peeler_walk_nocollect(_, _, _, _, _, _)
peeler_walk_nocollect(log, shorter_oe, oid1, oid2, i, shared_events) ==
    IF i > Len(shorter_oe)
    THEN [failed |-> FALSE, panicked |-> FALSE, shared_events |-> shared_events]
    ELSE IF shorter_oe[i] \notin DOMAIN log.events
    THEN [failed |-> FALSE, panicked |-> TRUE, shared_events |-> shared_events]
    ELSE LET omap == log.events[shorter_oe[i]]
         IN  IF Cardinality(omap) > 2 /\ oid1 \in omap /\ oid2 \in omap
             THEN [failed |-> TRUE, panicked |-> FALSE,
                   shared_events |-> shared_events]
             ELSE peeler_walk_nocollect(log, shorter_oe, oid1, oid2, i + 1,
                                        shared_events)

\* mutant: the event after the one walked is looked up in the log
RECURSIVE peeler_walk_offbyone(_, _, _, _, _, _)
peeler_walk_offbyone(log, shorter_oe, oid1, oid2, i, shared_events) ==
    IF i > Len(shorter_oe)
    THEN [failed |-> FALSE, panicked |-> FALSE, shared_events |-> shared_events]
    ELSE IF shorter_oe[i] + 1 \notin DOMAIN log.events
    THEN [failed |-> FALSE, panicked |-> TRUE, shared_events |-> shared_events]
    ELSE LET omap == log.events[shorter_oe[i] + 1]
         IN  IF Cardinality(omap) > 2 /\ oid1 \in omap /\ oid2 \in omap
             THEN [failed |-> TRUE, panicked |-> FALSE,
                   shared_events |-> shared_events]
             ELSE peeler_walk_offbyone(log, shorter_oe, oid1, oid2, i + 1,
                                       shared_events \cup {shorter_oe[i]})

\* the PEELER loop over shorter_oe, from position i with the events shared so far
RECURSIVE peeler_walk(_, _, _, _, _, _)
peeler_walk(log, shorter_oe, oid1, oid2, i, shared_events) ==
    IF i > Len(shorter_oe)
    THEN [failed |-> FALSE, panicked |-> FALSE, shared_events |-> shared_events]
    ELSE IF shorter_oe[i] \notin DOMAIN log.events
    THEN [failed |-> FALSE, panicked |-> TRUE, shared_events |-> shared_events]
    ELSE LET omap == log.events[shorter_oe[i]]
         IN  IF Cardinality(omap) > 2 /\ oid1 \in omap /\ oid2 \in omap
             THEN [failed |-> TRUE, panicked |-> FALSE,
                   shared_events |-> shared_events]
             ELSE peeler_walk(log, shorter_oe, oid1, oid2, i + 1,
                              shared_events \cup {shorter_oe[i]})

execute_panics(rel, log, o, oid1, oid2) ==
    \/ oid1 \notin DOMAIN o.node_attributes
    \/ oid2 \notin DOMAIN o.node_attributes
    \/ LET src_oe == o.node_attributes[oid1].object_events
           tar_oe == o.node_attributes[oid2].object_events
           src_type == o.node_attributes[oid1].node_type
           tar_type == o.node_attributes[oid2].node_type
       IN  CASE rel \in {"COBIRTH", "CODEATH", "ENGAGES"} ->
                    oid1 < oid2 /\ (src_oe = << >> \/ tar_oe = << >>)
             [] rel \in {"INHERITANCE", "MERGE"} ->
                    src_oe = << >> \/ (src_type = tar_type /\ tar_oe = << >>)
             [] rel = "CONSUMES" ->
                    src_oe = << >> \/ (src_type # tar_type /\ tar_oe = << >>)
             [] rel = "PEELER" ->
                    /\ oid1 < oid2
                    /\ peeler_walk(log,
                          IF Len(src_oe) > Len(tar_oe) THEN tar_oe ELSE src_oe,
                          oid1, oid2, 1, {}).panicked
             [] OTHER -> FALSE

\* the arms of the match in execute
\* mutant: only the lengths of the two lifelines are compared
execute_COLIFE_len(o, oid1, oid2) ==
    LET src_oe == o.node_attributes[oid1].object_events
        tar_oe == o.node_attributes[oid2].object_events
    IN  IF Len(src_oe) = Len(tar_oe)
        THEN << <<oid1, oid2, MULTI(Range(src_oe)), "COLIFE">> >>
        ELSE << >>

execute_COLIFE(o, oid1, oid2) ==
    LET src_oe == o.node_attributes[oid1].object_events
        tar_oe == o.node_attributes[oid2].object_events
    IN  IF src_oe = tar_oe
        THEN << <<oid1, oid2, MULTI(Range(src_oe)), "COLIFE">> >>
        ELSE << >>

\* mutant: the reverse edge is not proposed
execute_COBIRTH_oneway(o, oid1, oid2) ==
    LET src_oe == o.node_attributes[oid1].object_events
        tar_oe == o.node_attributes[oid2].object_events
    IN  IF oid1 < oid2 /\ First(src_oe) = First(tar_oe)
        THEN << <<oid1, oid2, SINGLE(First(src_oe)), "COBIRTH">> >>
        ELSE << >>

execute_COBIRTH(o, oid1, oid2) ==
    LET src_oe == o.node_attributes[oid1].object_events
        tar_oe == o.node_attributes[oid2].object_events
    IN  IF oid1 < oid2 /\ First(src_oe) = First(tar_oe)
        THEN << <<oid1, oid2, SINGLE(First(src_oe)), "COBIRTH">>,
                <<oid2, oid1, SINGLE(First(src_oe)), "COBIRTH">> >>
        ELSE << >>

\* mutant: the first events are compared instead of the last
execute_CODEATH_first(o, oid1, oid2) ==
    LET src_oe == o.node_attributes[oid1].object_events
        tar_oe == o.node_attributes[oid2].object_events
    IN  IF oid1 < oid2 /\ First(src_oe) = First(tar_oe)
        THEN << <<oid1, oid2, SINGLE(Last(src_oe)), "CODEATH">>,
                <<oid2, oid1, SINGLE(Last(src_oe)), "CODEATH">> >>
        ELSE << >>

execute_CODEATH(o, oid1, oid2) ==
    LET src_oe == o.node_attributes[oid1].object_events
        tar_oe == o.node_attributes[oid2].object_events
    IN  IF oid1 < oid2 /\ Last(src_oe) = Last(tar_oe)
        THEN << <<oid1, oid2, SINGLE(Last(src_oe)), "CODEATH">>,
                <<oid2, oid1, SINGLE(Last(src_oe)), "CODEATH">> >>
        ELSE << >>

execute_INHERITANCE(o, oid1, oid2) ==
    LET src == o.node_attributes[oid1]
        tar == o.node_attributes[oid2]
    IN  IF src.node_type = tar.node_type
           /\ Last(src.object_events) = First(tar.object_events)
        THEN << <<oid1, oid2, SINGLE(Last(src.object_events)), "INHERITANCE">> >>
        ELSE << >>

\* mutant: CONSUMES fires for equal types
execute_CONSUMES_sametype(o, oid1, oid2) ==
    LET src == o.node_attributes[oid1]
        tar == o.node_attributes[oid2]
    IN  IF src.node_type = tar.node_type
           /\ Last(src.object_events) = First(tar.object_events)
        THEN << <<oid1, oid2, SINGLE(Last(src.object_events)), "CONSUMES">> >>
        ELSE << >>

execute_CONSUMES(o, oid1, oid2) ==
    LET src == o.node_attributes[oid1]
        tar == o.node_attributes[oid2]
    IN  IF src.node_type # tar.node_type
           /\ Last(src.object_events) = First(tar.object_events)
        THEN << <<oid1, oid2, SINGLE(Last(src.object_events)), "CONSUMES">> >>
        ELSE << >>

\* mutant: MERGE compares the source's last event with the target's first
execute_MERGE_first(o, oid1, oid2) ==
    LET src == o.node_attributes[oid1]
        tar == o.node_attributes[oid2]
    IN  IF src.node_type = tar.node_type
           /\ Last(src.object_events) # First(tar.object_events)
        THEN << <<oid1, oid2, SINGLE(Last(src.object_events)), "MERGE">> >>
        ELSE << >>

execute_MERGE(o, oid1, oid2) ==
    LET src == o.node_attributes[oid1]
        tar == o.node_attributes[oid2]
    IN  IF src.node_type = tar.node_type
           /\ Last(src.object_events) # Last(tar.object_events)
        THEN << <<oid1, oid2, SINGLE(Last(src.object_events)), "MERGE">> >>
        ELSE << >>

execute_MINION(o, oid1, oid2) ==
    LET src_oe == o.node_attributes[oid1].object_events
        tar_oe == o.node_attributes[oid2].object_events
    IN  IF Len(src_oe) > Len(tar_oe)
        THEN LET common_events == intersect(src_oe, tar_oe)
             IN  IF Len(common_events) = Len(tar_oe)
                 THEN << <<oid1, oid2, MULTI(Range(common_events)), "MINION">> >>
                 ELSE << >>
        ELSE << >>

\* mutant: on equal lengths PEELER walks the target's lifeline
execute_PEELER_ge(log, o, oid1, oid2) ==
    LET src_oe == o.node_attributes[oid1].object_events
        tar_oe == o.node_attributes[oid2].object_events
    IN  IF oid1 < oid2
        THEN LET shorter_oe == IF Len(src_oe) >= Len(tar_oe) THEN tar_oe ELSE src_oe
                 w == peeler_walk(log, shorter_oe, oid1, oid2, 1, {})
             IN  IF ~w.failed
                 THEN << <<oid1, oid2, MULTI(w.shared_events), "PEELER">>,
                         <<oid2, oid1, MULTI(w.shared_events), "PEELER">> >>
                 ELSE << >>
        ELSE << >>

execute_PEELER(log, o, oid1, oid2) ==
    LET src_oe == o.node_attributes[oid1].object_events
        tar_oe == o.node_attributes[oid2].object_events
    IN  IF oid1 < oid2
        THEN LET shorter_oe == IF Len(src_oe) > Len(tar_oe) THEN tar_oe ELSE src_oe
                 w == peeler_walk(log, shorter_oe, oid1, oid2, 1, {})
             IN  IF ~w.failed
                 THEN << <<oid1, oid2, MULTI(w.shared_events), "PEELER">>,
                         <<oid2, oid1, MULTI(w.shared_events), "PEELER">> >>
                 ELSE << >>
        ELSE << >>

\* mutant: ENGAGES tests the source's first and last event only
execute_ENGAGES_src(o, oid1, oid2) ==
    LET src_oe == o.node_attributes[oid1].object_events
        tar_oe == o.node_attributes[oid2].object_events
    IN  IF oid1 < oid2
        THEN LET src_oe_set == Range(src_oe)
                 tar_oe_set == Range(tar_oe)
             IN  IF /\ First(src_oe) \notin tar_oe_set
                    /\ Last(src_oe) \notin tar_oe_set
                 THEN LET shared_events == src_oe_set \cap tar_oe_set
                      IN  << <<oid1, oid2, MULTI(shared_events), "ENGAGES">>,
                             <<oid2, oid1, MULTI(shared_events), "ENGAGES">> >>
                 ELSE << >>
        ELSE << >>

execute_ENGAGES(o, oid1, oid2) ==
    LET src_oe == o.node_attributes[oid1].object_events
        tar_oe == o.node_attributes[oid2].object_events
    IN  IF oid1 < oid2
        THEN LET src_oe_set == Range(src_oe)
                 tar_oe_set == Range(tar_oe)
             IN  IF /\ First(src_oe) \notin tar_oe_set
                    /\ Last(src_oe) \notin tar_oe_set
                    /\ First(tar_oe) \notin src_oe_set
                    /\ Last(tar_oe) \notin src_oe_set
                 THEN LET shared_events == src_oe_set \cap tar_oe_set
                      IN  << <<oid1, oid2, MULTI(shared_events), "ENGAGES">>,
                             <<oid2, oid1, MULTI(shared_events), "ENGAGES">> >>
                 ELSE << >>
        ELSE << >>

execute(rel, log, o, oid1, oid2) ==
    CASE rel = "COLIFE" -> execute_COLIFE(o, oid1, oid2)
      [] rel = "COBIRTH" -> execute_COBIRTH(o, oid1, oid2)
      [] rel = "CODEATH" -> execute_CODEATH(o, oid1, oid2)
      [] rel = "INHERITANCE" -> execute_INHERITANCE(o, oid1, oid2)
      [] rel = "CONSUMES" -> execute_CONSUMES(o, oid1, oid2)
      [] rel = "MERGE" -> execute_MERGE(o, oid1, oid2)
      [] rel = "MINION" -> execute_MINION(o, oid1, oid2)
      [] rel = "PEELER" -> execute_PEELER(log, o, oid1, oid2)
      [] rel = "ENGAGES" -> execute_ENGAGES(o, oid1, oid2)
      [] OTHER -> << >>

(***************************************************************************)
(* Ocdg::apply_new_edges                                                   *)
(***************************************************************************)
apply_new_edges_panics(o, edge) ==
    /\ edge \notin DOMAIN o.iedges
    /\ (edge[1] \notin DOMAIN o.inodes \/ edge[2] \notin DOMAIN o.inodes)

\* mutant: the relation map of the pair is replaced, not extended
apply_new_edges_reset(o, edge, eids, rel) ==
    LET o1 == IF edge \in DOMAIN o.iedges THEN o
              ELSE [o EXCEPT
                      !.net = add_edge(@, o.inodes[edge[1]], o.inodes[edge[2]], 0),
                      !.iedges = Put(@, edge, Len(o.net.edges) + 1)]
        events == IF eids[1] = "MULTI" THEN eids[2] ELSE {eids[2]}
    IN  [o1 EXCEPT !.irels = Put(@, edge, Put(EmptyMap, relation_index(rel), events))]

\* mutant: an occupied entry is overwritten, not united
apply_new_edges_overwrite(o, edge, eids, rel) ==
    LET o1 == IF edge \in DOMAIN o.iedges THEN o
              ELSE [o EXCEPT
                      !.net = add_edge(@, o.inodes[edge[1]], o.inodes[edge[2]], 0),
                      !.iedges = Put(@, edge, Len(o.net.edges) + 1)]
        rels == IF edge \in DOMAIN o1.irels THEN o1.irels[edge] ELSE EmptyMap
        events == IF eids[1] = "MULTI" THEN eids[2] ELSE {eids[2]}
    IN  [o1 EXCEPT !.irels = Put(@, edge, Put(rels, relation_index(rel), events))]

\* mutant: an underlying edge is added on every call
apply_new_edges_dupedge(o, edge, eids, rel) ==
    LET o1 == [o EXCEPT
                 !.net = add_edge(@, o.inodes[edge[1]], o.inodes[edge[2]], 0),
                 !.iedges = Put(@, edge, Len(o.net.edges) + 1)]
        rels == IF edge \in DOMAIN o1.irels THEN o1.irels[edge] ELSE EmptyMap
        k == relation_index(rel)
        events == IF eids[1] = "MULTI" THEN eids[2] ELSE {eids[2]}
        new_set == IF k \in DOMAIN rels THEN rels[k] \cup events ELSE events
    IN  [o1 EXCEPT !.irels = Put(@, edge, Put(rels, k, new_set))]

apply_new_edges(o, edge, eids, rel) ==
    LET o1 == IF edge \in DOMAIN o.iedges THEN o
              ELSE [o EXCEPT
                      !.net = add_edge(@, o.inodes[edge[1]], o.inodes[edge[2]], 0),
                      !.iedges = Put(@, edge, Len(o.net.edges) + 1)]
        rels == IF edge \in DOMAIN o1.irels THEN o1.irels[edge] ELSE EmptyMap
        k == relation_index(rel)
        events == IF eids[1] = "MULTI" THEN eids[2] ELSE {eids[2]}
        new_set == IF k \in DOMAIN rels THEN rels[k] \cup events ELSE events
    IN  [o1 EXCEPT !.irels = Put(@, edge, Put(rels, k, new_set))]

(***************************************************************************)
(* whole_instance_edges                                                    *)
(***************************************************************************)
\* the neighbours b of node for which the instance evaluators are run
instance_targets(o, oid1, neighborhood) ==
    SelectSeq([i \in 1..Len(neighborhood) |-> o.net.nodes[neighborhood[i]]],
              LAMBDA oid2 : Cardinality(DOMAIN o.irels[<<oid1, oid2>>]) > 0)

whole_instance_edges_panics(log, o, oid1, node, rel_whole, rel_inst) ==
    LET neighborhood == neighbors_directed(o.net, node)
    IN  \/ \E i \in DOMAIN rel_whole :
              execute_whole_panics(rel_whole[i], o, oid1, neighborhood)
        \/ \E i \in DOMAIN neighborhood :
              \/ neighborhood[i] \notin DOMAIN o.net.nodes
              \/ <<oid1, o.net.nodes[neighborhood[i]]>> \notin DOMAIN o.irels
        \/ LET targets == instance_targets(o, oid1, neighborhood)
           IN  \E i \in DOMAIN targets : \E j \in DOMAIN rel_inst :
                  execute_panics(rel_inst[j], log, o, oid1, targets[i])

whole_instance_edges(log, o, oid1, node, rel_whole, rel_inst) ==
    LET neighborhood == neighbors_directed(o.net, node)
        targets == instance_targets(o, oid1, neighborhood)
    IN  Flatten([i \in 1..Len(rel_whole) |->
                    execute_whole(rel_whole[i], o, oid1, neighborhood)])
        \o Flatten([i \in 1..Len(targets) |->
                    Flatten([j \in 1..Len(rel_inst) |->
                        execute(rel_inst[j], log, o, oid1, targets[i])])])

\* the evaluator calls made by whole_instance_edges, as
\* <<function, relation, source, target>>; execute_whole has no target, and
\* "candidate" marks the neighbours its SPLIT loop looks at
whole_instance_calls(o, oid1, node, rel_whole, rel_inst) ==
    LET neighborhood == neighbors_directed(o.net, node)
        targets == instance_targets(o, oid1, neighborhood)
    IN  {<<"execute_whole", rel_whole[i], oid1, NoOid>> : i \in DOMAIN rel_whole}
        \cup {<<"candidate", "SPLIT", oid1, o.net.nodes[neighborhood[i]]>> :
                i \in {j \in DOMAIN neighborhood : "SPLIT" \in Range(rel_whole)}}
        \cup {<<"execute", rel_inst[j], oid1, targets[i]>> :
                i \in DOMAIN targets, j \in DOMAIN rel_inst}

(***************************************************************************)
(* generate_ocdg as a state machine                                        *)
(***************************************************************************)
VARIABLES
    log,          \* the Ocel argument: [events, objects]
    relations,    \* the relations argument
    pc,           \* "ingest", "apply", "phase2", "phase3", "done", "aborted"
    ev,           \* the next event of the ingestion loop
    ocdg,         \* the Ocdg under construction
    new_edges,    \* the proposals not yet applied
    task_order,   \* the nodes whose parallel task has delivered, in delivery order
    ran           \* history: the evaluator calls made so far

vars == <<log, relations, pc, ev, ocdg, new_edges, task_order, ran>>

\* mutant: the instance evaluators are not filtered by the selection
rel_inst_all(rels) == SelectSeq(RelSeq(Relations), LAMBDA r : relation_type(r) = 2)

rel_inst(rels) == SelectSeq(RelSeq(rels), LAMBDA r : relation_type(r) = 2)

rel_whole(rels) == SelectSeq(RelSeq(rels), LAMBDA r : relation_type(r) = 3)

\* mutant: a node is added at every sighting of an object
RECURSIVE register_objects_dup(_, _, _, _, _)
register_objects_dup(o, l, oids, i, eid) ==
    IF i > Len(oids) THEN o
    ELSE LET oid == oids[i]
             a == [o EXCEPT !.net = add_node(@, oid)]
             o1 == IF oid \notin DOMAIN o.node_attributes
                   THEN LET b == init_object_key(a, oid)
                            c == [b EXCEPT !.inodes = Put(@, oid, Len(a.net.nodes))]
                        IN  [c EXCEPT
                               !.node_attributes[oid].node_type = l.objects[oid],
                               !.node_attributes[oid].object_events = << >>]
                   ELSE a
         IN  register_objects_dup(add_eid_to_oe(o1, oid, eid), l, oids, i + 1, eid)

\* lines 338-349: the lifeline loop of one event over the objects oids[i..]
RECURSIVE register_objects(_, _, _, _, _)
register_objects(o, l, oids, i, eid) ==
    IF i > Len(oids) THEN o
    ELSE LET oid == oids[i]
             o1 == IF oid \notin DOMAIN o.node_attributes
                   THEN LET a == [o EXCEPT !.net = add_node(@, oid)]
                            b == init_object_key(a, oid)
                            c == IF oid \in DOMAIN b.inodes THEN b
                                 ELSE [b EXCEPT !.inodes =
                                          Put(@, oid, Len(a.net.nodes))]
                        IN  [c EXCEPT
                               !.node_attributes[oid].node_type = l.objects[oid],
                               !.node_attributes[oid].object_events = << >>]
                   ELSE o
         IN  register_objects(add_eid_to_oe(o1, oid, eid), l, oids, i + 1, eid)

\* line 343: log.objects[oid] for an object seen for the first time
register_panics(o, l, omap) ==
    \E oid \in omap : oid \notin DOMAIN o.node_attributes
                      /\ oid \notin DOMAIN l.objects

\* mutant: every object of the event is paired with every node known so far
primitive_edges_allnodes(o, omap, eid) ==
    LET oids == SortedSeq(omap)
        all == SortedSeq(DOMAIN o.node_attributes)
    IN  Flatten([i \in 1..Len(oids) |->
            Flatten([j \in 1..Len(all) |->
                IF oids[i] # all[j]
                THEN execute_primitive("INTERACTS", o, oids[i], all[j], eid)
                     \o execute_primitive("DESCENDANTS", o, oids[i], all[j], eid)
                ELSE << >>])])

\* mutant: the primitive evaluators run on the pairs oid1 < oid2 only
primitive_edges_oneway(o, omap, eid) ==
    LET oids == SortedSeq(omap)
    IN  Flatten([i \in 1..Len(oids) |->
            Flatten([j \in 1..Len(oids) |->
                IF oids[i] < oids[j]
                THEN execute_primitive("INTERACTS", o, oids[i], oids[j], eid)
                     \o execute_primitive("DESCENDANTS", o, oids[i], oids[j], eid)
                ELSE << >>])])

\* lines 350-363: the primitive proposals of one event
primitive_edges(o, omap, eid) ==
    LET oids == SortedSeq(omap)
    IN  Flatten([i \in 1..Len(oids) |->
            Flatten([j \in 1..Len(oids) |->
                IF oids[i] # oids[j]
                THEN execute_primitive("INTERACTS", o, oids[i], oids[j], eid)
                     \o execute_primitive("DESCENDANTS", o, oids[i], oids[j], eid)
                ELSE << >>])])

primitive_calls(omap) ==
    {<<"execute_primitive", r, a, b>> :
        r \in {"INTERACTS", "DESCENDANTS"},
        a \in omap, b \in omap} \ 
    {<<"execute_primitive", r, a, a>> :
        r \in {"INTERACTS", "DESCENDANTS"}, a \in omap}

\* mutant: the first proposal of an event is merged as soon as it is made
IngestEvent_merging ==
    /\ pc = "ingest"
    /\ ev <= Len(log.events)
    /\ LET omap == log.events[ev]
       IN  IF register_panics(ocdg, log, omap)
           THEN /\ pc' = "aborted"
                /\ UNCHANGED <<ev, ocdg, new_edges, ran>>
           ELSE LET o1 == register_objects(ocdg, log, SortedSeq(omap), 1, ev)
                    props == primitive_edges(o1, omap, ev)
                IN  /\ IF props = << >>
                       THEN ocdg' = o1 /\ new_edges' = new_edges
                       ELSE /\ ocdg' = apply_new_edges(o1,
                                          <<props[1][1], props[1][2]>>,
                                          props[1][3], props[1][4])
                            /\ new_edges' = new_edges \o Tail(props)
                    /\ ran' = ran \cup primitive_calls(omap)
                    /\ ev' = ev + 1
                    /\ pc' = IF ev = Len(log.events) THEN "apply" ELSE "ingest"
    /\ UNCHANGED <<log, relations, task_order>>

\* lines 337-364, one iteration
IngestEvent ==
    /\ pc = "ingest"
    /\ ev <= Len(log.events)
    /\ LET omap == log.events[ev]
       IN  IF register_panics(ocdg, log, omap)
           THEN /\ pc' = "aborted"
                /\ UNCHANGED <<ev, ocdg, new_edges, ran>>
           ELSE LET o1 == register_objects(ocdg, log, SortedSeq(omap), 1, ev)
                IN  /\ ocdg' = o1
                    /\ new_edges' = new_edges \o primitive_edges(o1, omap, ev)
                    /\ ran' = ran \cup primitive_calls(omap)
                    /\ ev' = ev + 1
                    /\ pc' = IF ev = Len(log.events) THEN "apply" ELSE "ingest"
    /\ UNCHANGED <<log, relations, task_order>>

\* one call of apply_new_edges on the first pending proposal
ApplyHead ==
    LET edge == Head(new_edges)
    IN  IF apply_new_edges_panics(ocdg, <<edge[1], edge[2]>>)
        THEN /\ pc' = "aborted"
             /\ UNCHANGED <<ocdg, new_edges>>
        ELSE /\ ocdg' = apply_new_edges(ocdg, <<edge[1], edge[2]>>, edge[3], edge[4])
             /\ new_edges' = Tail(new_edges)
             /\ UNCHANGED pc

\* lines 366-368, one iteration
ApplyPrimitiveEdge ==
    /\ pc = "apply"
    /\ new_edges # << >>
    /\ ApplyHead
    /\ UNCHANGED <<log, relations, ev, task_order, ran>>

\* line 370: the parallel iteration over inodes starts
Fork ==
    /\ pc = "apply"
    /\ new_edges = << >>
    /\ pc' = "phase2"
    /\ UNCHANGED <<log, relations, ev, ocdg, new_edges, task_order, ran>>

\* line 371: the task of one node; tasks deliver in any order
RunTask(oid) ==
    /\ pc = "phase2"
    /\ oid \in DOMAIN ocdg.inodes
    /\ oid \notin Range(task_order)
    /\ LET node == ocdg.inodes[oid]
           rw == rel_whole(relations)
           ri == rel_inst(relations)
       IN  IF whole_instance_edges_panics(log, ocdg, oid, node, rw, ri)
           THEN /\ pc' = "aborted"
                /\ UNCHANGED <<new_edges, task_order, ran>>
           ELSE /\ new_edges' = new_edges \o
                        whole_instance_edges(log, ocdg, oid, node, rw, ri)
                /\ task_order' = Append(task_order, oid)
                /\ ran' = ran \cup whole_instance_calls(ocdg, oid, node, rw, ri)
                /\ UNCHANGED pc
    /\ UNCHANGED <<log, relations, ev, ocdg>>

\* lines 372-373: all tasks have delivered, the proposals are collected
Join ==
    /\ pc = "phase2"
    /\ Range(task_order) = DOMAIN ocdg.inodes
    /\ pc' = "phase3"
    /\ UNCHANGED <<log, relations, ev, ocdg, new_edges, task_order, ran>>

\* lines 375-377, one iteration
ReconcileEdge ==
    /\ pc = "phase3"
    /\ new_edges # << >>
    /\ ApplyHead
    /\ UNCHANGED <<log, relations, ev, task_order, ran>>

\* line 379
Return ==
    /\ pc = "phase3"
    /\ new_edges = << >>
    /\ pc' = "done"
    /\ UNCHANGED <<log, relations, ev, ocdg, new_edges, task_order, ran>>

Next ==
    \/ IngestEvent
    \/ ApplyPrimitiveEdge
    \/ Fork
    \/ \E oid \in DOMAIN ocdg.inodes : RunTask(oid)
    \/ Join
    \/ ReconcileEdge
    \/ Return

(***************************************************************************)
(* Inputs                                                                  *)
(***************************************************************************)
Tier(t) == {r \in Relations : relation_type(r) = t}

\* the selections tried: every union of tiers
Selections == {UNION {Tier(t) : t \in T} : T \in SUBSET {1, 2, 3}}

Logs(nobj, nev) ==
    {[events |-> es, objects |-> os] :
        es \in UNION {[1..n -> SUBSET (1..nobj)] : n \in 0..nev},
        os \in UNION {[D -> Types] : D \in SUBSET (1..nobj)}}

InitWith(l, rels) ==
    /\ log = l
    /\ relations = rels
    /\ pc = IF Len(l.events) = 0 THEN "apply" ELSE "ingest"
    /\ ev = 1
    /\ ocdg = OcdgDefault
    /\ new_edges = << >>
    /\ task_order = << >>
    /\ ran = {}

\* short logs over MaxObj objects, objects possibly undeclared, every selection
\* tried; and longer logs over LongObj declared objects with every kind selected
Init ==
    \/ \E l \in Logs(MaxObj, MaxEv), rels \in Selections : InitWith(l, rels)
    \/ \E l \in Logs(LongObj, LongEv) :
          /\ DOMAIN l.objects = 1..LongObj
          /\ InitWith(l, Relations)

Spec == Init /\ [][Next]_vars

(***************************************************************************)
(* generate_ocdg run to completion with the tasks of phase 2 taken in      *)
(* ascending order of object id (defined for logs on which it does not     *)
(* abort)                                                                  *)
(***************************************************************************)
RECURSIVE apply_all(_, _)
apply_all(o, edges) ==
    IF edges = << >> THEN o
    ELSE apply_all(apply_new_edges(o, <<Head(edges)[1], Head(edges)[2]>>,
                                   Head(edges)[3], Head(edges)[4]),
                   Tail(edges))

RECURSIVE ingest_all(_, _, _, _)
ingest_all(o, edges, l, i) ==
    IF i > Len(l.events) THEN [ocdg |-> o, new_edges |-> edges]
    ELSE LET o1 == register_objects(o, l, SortedSeq(l.events[i]), 1, i)
         IN  ingest_all(o1, edges \o primitive_edges(o1, l.events[i], i), l, i + 1)

generate_ocdg(l, rels) ==
    LET p1 == ingest_all(OcdgDefault, << >>, l, 1)
        o1 == apply_all(p1.ocdg, p1.new_edges)
        oids == SortedSeq(DOMAIN o1.inodes)
        p2 == Flatten([i \in 1..Len(oids) |->
                 whole_instance_edges(l, o1, oids[i], o1.inodes[oids[i]],
                                      rel_whole(rels), rel_inst(rels))])
    IN  apply_all(o1, p2)

(***************************************************************************)
(* Observations used by the properties                                     *)
(***************************************************************************)
\* the graph up to set equality: nodes, directed pairs, evidence
Graph(o) ==
    [nodes |-> Range(o.net.nodes),
     pairs |-> {<<o.net.nodes[e[1]], o.net.nodes[e[2]]>> : e \in Range(o.net.edges)},
     evidence |-> o.irels]

HasEvidence(o, a, b, r) ==
    <<a, b>> \in DOMAIN o.irels /\ relation_index(r) \in DOMAIN o.irels[<<a, b>>]

\* the evidence of (a, b, r); empty when the triple is absent
Evidence(o, a, b, r) ==
    IF HasEvidence(o, a, b, r) THEN o.irels[<<a, b>>][relation_index(r)] ELSE {}

Lifeline(o, a) == o.node_attributes[a].object_events

Nodes(o) == DOMAIN o.node_attributes

Referenced(l) == UNION Range(l.events)

SharedEvents(l, a, b) == {e \in DOMAIN l.events : a \in l.events[e] /\ b \in l.events[e]}

Finished == pc = "done"

AllOids == Referenced(log) \cup DOMAIN log.objects \cup Nodes(ocdg)

AfterIngestion == pc \in {"phase2", "phase3", "done"}

\* the length of the lifeline of o right after event e has been ingested
LenAfter(l, o, e) == Cardinality({e2 \in 1..e : o \in l.events[e2]})

(***************************************************************************)
(* Properties                                                              *)
(***************************************************************************)

\* C1: the final graph (nodes, directed pairs, evidence of every triple) is
\* the same whatever the order in which the tasks of phase 2 deliver and
\* their proposals are merged: it equals the graph of the run that takes
\* the tasks in ascending order.
C1_OrderIndependent ==
    Finished => Graph(ocdg) = Graph(generate_ocdg(log, relations))

\* a finished run whose tasks delivered out of ascending order and in which
\* two different tasks proposed evidence for the same ordered pair
C1_Witness ==
    /\ Finished
    /\ \E i, j \in DOMAIN task_order : i < j /\ task_order[i] > task_order[j]
    /\ \E a, b \in Nodes(ocdg) :
          /\ a < b
          /\ HasEvidence(ocdg, b, a, "COBIRTH")
          /\ HasEvidence(ocdg, b, a, "INHERITANCE")

\* C2: after ingestion the INTERACTS evidence of every ordered pair of
\* distinct objects is exactly the set of events whose object set holds both.
C2_InteractsExact ==
    AfterIngestion =>
        \A a, b \in AllOids : a # b =>
            /\ Evidence(ocdg, a, b, "INTERACTS") = SharedEvents(log, a, b)
            /\ HasEvidence(ocdg, a, b, "INTERACTS") <=> SharedEvents(log, a, b) # {}

\* ingestion is over and two objects share two events
C2_Witness ==
    /\ AfterIngestion
    /\ \E a, b \in Nodes(ocdg) :
          a # b /\ Cardinality(Evidence(ocdg, a, b, "INTERACTS")) >= 2

\* C3: in the final graph, event e is DESCENDANTS evidence of (a,b), both in
\* e's object set, exactly when right after e was appended to the lifelines
\* a's lifeline was longer than 1 and b's had length 1.
C3_DescendantsIff ==
    Finished =>
        \A e \in DOMAIN log.events : \A a, b \in log.events[e] : a # b =>
            (e \in Evidence(ocdg, a, b, "DESCENDANTS")
                <=> (LenAfter(log, a, e) > 1 /\ LenAfter(log, b, e) = 1))

\* a finished run with DESCENDANTS evidence on one direction of a pair and
\* none on the other
C3_Witness ==
    /\ Finished
    /\ \E a, b \in Nodes(ocdg) :
          /\ HasEvidence(ocdg, a, b, "DESCENDANTS")
          /\ ~HasEvidence(ocdg, b, a, "DESCENDANTS")

\* the calls of the evaluator of relation r made so far
CallsOf(r) == {c \in ran : c[2] = r}

NoTraceOf(r) ==
    /\ CallsOf(r) = {}
    /\ \A a, b \in AllOids : ~HasEvidence(ocdg, a, b, r)

\* C4 as stated: no relation outside the selection, of any tier, is ever
\* evaluated or has evidence.
C4_UnselectedSkipped ==
    \A r \in Relations \ relations : NoTraceOf(r)

\* C4 amended: no Instance or Whole relation outside the selection is ever
\* evaluated or has evidence; the Primitive relations INTERACTS and
\* DESCENDANTS are evaluated for every ordered pair of distinct objects of
\* every ingested event whatever the selection.
C4_UnselectedInstanceWholeSkipped ==
    /\ \A r \in Relations \ relations : relation_type(r) \in {2, 3} => NoTraceOf(r)
    /\ \A e \in 1..(ev - 1) : \A a, b \in log.events[e] : a # b =>
          /\ <<"execute_primitive", "INTERACTS", a, b>> \in ran
          /\ <<"execute_primitive", "DESCENDANTS", a, b>> \in ran

\* a finished run that selected neither INTERACTS nor INHERITANCE, with a
\* pair that has INTERACTS evidence and meets the INHERITANCE rule
C4_Witness ==
    /\ Finished
    /\ "INTERACTS" \notin relations
    /\ "INHERITANCE" \notin relations
    /\ \E a, b \in Nodes(ocdg) :
          /\ HasEvidence(ocdg, a, b, "INTERACTS")
          /\ execute_INHERITANCE(ocdg, a, b) # << >>

Canonicalized == {"COBIRTH", "CODEATH", "PEELER", "ENGAGES"}

Swap(a, b, x) == IF x = a THEN b ELSE IF x = b THEN a ELSE x

\* the log with the ids of objects a and b exchanged
SwapLog(l, a, b) ==
    [events |-> [i \in DOMAIN l.events |-> {Swap(a, b, x) : x \in l.events[i]}],
     objects |-> [x \in {Swap(a, b, y) : y \in DOMAIN l.objects} |->
                    l.objects[Swap(a, b, x)]]]

SymmetricEvidence(r, a, b) ==
    /\ HasEvidence(ocdg, a, b, r) <=> HasEvidence(ocdg, b, a, r)
    /\ Evidence(ocdg, a, b, r) = Evidence(ocdg, b, a, r)

\* the evidence of (a,b,r) in o is the evidence of (b,a,r) in swapped, the
\* graph constructed from the log with the ids of a and b exchanged
IdIndependent(swapped, r, a, b) ==
    /\ HasEvidence(ocdg, a, b, r) <=> HasEvidence(swapped, b, a, r)
    /\ Evidence(ocdg, a, b, r) = Evidence(swapped, b, a, r)

\* C5 as stated: for COBIRTH, CODEATH, PEELER and ENGAGES the evidence of
\* (a,b) and (b,a) exist together and are equal, and does not depend on
\* which of the two objects has the smaller id.
C5_CanonicalIdIndependent ==
    Finished =>
        \A a, b \in Nodes(ocdg) : a # b =>
            LET swapped == generate_ocdg(SwapLog(log, a, b), relations)
            IN  \A r \in Canonicalized :
                    SymmetricEvidence(r, a, b) /\ IdIndependent(swapped, r, a, b)

\* C5 amended: the evidence of (a,b) and (b,a) exist together and are equal;
\* it does not depend on which object has the smaller id for COBIRTH,
\* CODEATH and ENGAGES, nor for PEELER when the two lifelines differ in
\* length; PEELER between lifelines of equal length records the events of
\* the lifeline of the object with the smaller id.
C5_CanonicalSymmetric ==
    Finished =>
        \A a, b \in Nodes(ocdg) : a # b =>
            LET swapped == generate_ocdg(SwapLog(log, a, b), relations)
            IN  \A r \in Canonicalized :
                    /\ SymmetricEvidence(r, a, b)
                    /\ IF r = "PEELER"
                          /\ Len(Lifeline(ocdg, a)) = Len(Lifeline(ocdg, b))
                       THEN HasEvidence(ocdg, a, b, r) =>
                                Evidence(ocdg, a, b, r) =
                                    Range(Lifeline(ocdg, IF a < b THEN a ELSE b))
                       ELSE IdIndependent(swapped, r, a, b)

\* a finished run with ENGAGES and PEELER evidence between two objects whose
\* lifelines have equal length and different events
C5_Witness ==
    /\ Finished
    /\ \E a, b \in Nodes(ocdg) :
          /\ a < b
          /\ HasEvidence(ocdg, a, b, "ENGAGES")
          /\ HasEvidence(ocdg, b, a, "PEELER")
          /\ Len(Lifeline(ocdg, a)) = Len(Lifeline(ocdg, b))
          /\ Range(Lifeline(ocdg, a)) # Range(Lifeline(ocdg, b))

HasPrimitive(o, a, b) ==
    /\ <<a, b>> \in DOMAIN o.iedges
    /\ HasEvidence(o, a, b, "INTERACTS") \/ HasEvidence(o, a, b, "DESCENDANTS")

\* C6: an Instance evaluator runs on (a,b), and SPLIT looks at b as a target
\* of a, only when the edge a->b exists with a Primitive relation, which
\* only objects sharing an event have; objects that share no event carry no
\* Instance or Whole evidence.
C6_GatedByAdjacency ==
    /\ \A c \in ran : c[1] \in {"execute", "candidate"} =>
          /\ HasPrimitive(ocdg, c[3], c[4])
          /\ SharedEvents(log, c[3], c[4]) # {}
    /\ \A a, b \in AllOids : (a # b /\ SharedEvents(log, a, b) = {}) =>
          \A r \in Relations : relation_type(r) \in {2, 3} =>
              ~HasEvidence(ocdg, a, b, r)

\* a finished run with MERGE selected and objects a, b, c where a and b have
\* MERGE evidence and a and c, sharing no event, meet the MERGE rule
C6_Witness ==
    /\ Finished
    /\ "MERGE" \in relations
    /\ \E a, b, c \in Nodes(ocdg) :
          /\ HasEvidence(ocdg, a, b, "MERGE")
          /\ a # c
          /\ SharedEvents(log, a, c) = {}
          /\ execute_MERGE(ocdg, a, c) # << >>

\* C7: every (source, target, relation) triple of the evidence index holds a
\* non-empty set of events, in every state of construction.
C7_EvidenceNonEmpty ==
    \A p \in DOMAIN ocdg.irels :
        /\ DOMAIN ocdg.irels[p] # {}
        /\ \A k \in DOMAIN ocdg.irels[p] : ocdg.irels[p][k] # {}

\* ENGAGES and PEELER evidence, both built from sets, recorded on one pair
C7_Witness ==
    \E a, b \in Nodes(ocdg) :
        HasEvidence(ocdg, a, b, "ENGAGES") /\ HasEvidence(ocdg, a, b, "PEELER")

Undeclared(l) == Referenced(l) \ DOMAIN l.objects

\* the position in the phases of generate_ocdg, and what is left of the loop
\* (or fork-join) of the current phase
Rank(p) ==
    CASE p = "ingest" -> 4
      [] p = "apply" -> 3
      [] p = "phase2" -> 2
      [] p = "phase3" -> 1
      [] OTHER -> 0

Remaining ==
    CASE pc = "ingest" -> Len(log.events) + 1 - ev
      [] pc \in {"apply", "phase3"} -> Len(new_edges)
      [] pc = "phase2" -> Cardinality(DOMAIN ocdg.inodes) - Len(task_order)
      [] OTHER -> 0

Advances ==
    \/ Rank(pc') < Rank(pc)
    \/ Rank(pc') = Rank(pc) /\ Remaining' < Remaining /\ Remaining' >= 0

\* C8: construction aborts only on a log with an event that names an
\* undeclared object and never returns a graph for such a log; on a log
\* whose referenced objects are all declared no step aborts, and every step
\* brings the run closer to its return (a later phase, or fewer iterations
\* left of the current one).
C8_AbortIffUndeclared ==
    /\ [](pc = "aborted" => Undeclared(log) # {})
    /\ [](Finished => Undeclared(log) = {})
    /\ [][Advances]_vars

\* an abort at a later event, after an event was ingested
C8_Witness ==
    /\ pc = "aborted"
    /\ ev > 1
    /\ Undeclared(log) # {}

\* C9: the nodes of the final graph are the objects named by some event, one
\* node each; and every object an evaluator was run on has a node and a
\* non-empty lifeline.
C9_NodesExact ==
    /\ Finished =>
          /\ Range(ocdg.net.nodes) = Referenced(log)
          /\ Len(ocdg.net.nodes) = Cardinality(Referenced(log))
          /\ DOMAIN ocdg.inodes = Referenced(log)
          /\ \A a \in DOMAIN ocdg.inodes : ocdg.net.nodes[ocdg.inodes[a]] = a
    /\ \A c \in ran : \A a \in {c[3], c[4]} \ {NoOid} :
          /\ a \in DOMAIN ocdg.inodes
          /\ a \in Nodes(ocdg)
          /\ Lifeline(ocdg, a) # << >>

\* a finished run with an object in two events, a declared object in none,
\* and evaluators run in both passes
C9_Witness ==
    /\ Finished
    /\ \E a \in Nodes(ocdg) : Len(Lifeline(ocdg, a)) >= 2
    /\ DOMAIN log.objects \ Referenced(log) # {}
    /\ \E c \in ran : c[1] = "execute"
    /\ \E c \in ran : c[1] = "execute_whole"

ScenarioLog ==
    [events |-> << {1, 2}, {2, 3} >>, objects |-> [a \in 1..3 |-> "A"]]

ScenarioKinds == {"INTERACTS", "DESCENDANTS", "COBIRTH", "CODEATH", "INHERITANCE"}

ScenarioEvidence(a, b, r) ==
    CASE r = "INTERACTS" /\ <<a, b>> \in {<<1, 2>>, <<2, 1>>} -> {1}
      [] r = "INTERACTS" /\ <<a, b>> \in {<<2, 3>>, <<3, 2>>} -> {2}
      [] r = "DESCENDANTS" /\ <<a, b>> = <<2, 3>> -> {2}
      [] r = "COBIRTH" /\ <<a, b>> \in {<<1, 2>>, <<2, 1>>} -> {1}
      [] r = "CODEATH" /\ <<a, b>> \in {<<2, 3>>, <<3, 2>>} -> {2}
      [] r = "INHERITANCE" /\ <<a, b>> = <<1, 2>> -> {1}
      [] r = "INHERITANCE" /\ <<a, b>> = <<2, 3>> -> {2}
      [] OTHER -> {}

\* C10: on the scenario log (o1, o2, o3 of type A, e1 = {o1,o2},
\* e2 = {o2,o3}) with every kind selected, the final lifelines are [e1],
\* [e1,e2], [e2] and the INTERACTS, DESCENDANTS, COBIRTH, CODEATH and
\* INHERITANCE evidence is exactly the listed one.
C10_Scenario ==
    (Finished /\ log = ScenarioLog /\ relations = Relations) =>
        /\ Nodes(ocdg) = {1, 2, 3}
        /\ Lifeline(ocdg, 1) = <<1>>
        /\ Lifeline(ocdg, 2) = <<1, 2>>
        /\ Lifeline(ocdg, 3) = <<2>>
        /\ \A a, b \in 1..3 : \A r \in ScenarioKinds :
              /\ Evidence(ocdg, a, b, r) = ScenarioEvidence(a, b, r)
              /\ HasEvidence(ocdg, a, b, r) <=> ScenarioEvidence(a, b, r) # {}

\* the scenario run has finished
C10_Witness ==
    /\ Finished
    /\ log = ScenarioLog
    /\ relations = Relations
    /\ HasEvidence(ocdg, 2, 3, "INHERITANCE")

\* the complete lifeline of object a, read off the log: the events naming a,
\* in iteration order
LogLifeline(l, a) == SortedSeq({e \in DOMAIN l.events : a \in l.events[e]})

LogType(l, a) == l.objects[a]

\* C11: with COLIFE selected, COLIFE evidence exists on (a,b), a # b, exactly
\* when the complete lifelines of a and b are the same sequence, and it is
\* then the set of events of that lifeline.
C11_ColifeIff ==
    (Finished /\ "COLIFE" \in relations) =>
        \A a, b \in Nodes(ocdg) : a # b =>
            /\ HasEvidence(ocdg, a, b, "COLIFE")
                  <=> LogLifeline(log, a) = LogLifeline(log, b)
            /\ HasEvidence(ocdg, a, b, "COLIFE") =>
                  Evidence(ocdg, a, b, "COLIFE") = Range(LogLifeline(log, a))

\* a finished run with COLIFE evidence of two events on one pair, and a pair
\* of objects sharing an event that has no COLIFE evidence
C11_Witness ==
    /\ Finished
    /\ "COLIFE" \in relations
    /\ \E a, b \in Nodes(ocdg) :
          a # b /\ Cardinality(Evidence(ocdg, a, b, "COLIFE")) >= 2
    /\ \E a, b \in Nodes(ocdg) :
          /\ a # b
          /\ SharedEvents(log, a, b) # {}
          /\ ~HasEvidence(ocdg, a, b, "COLIFE")

\* the outgoing neighbours of a after phase 1, read off the log
LogNeighbours(l, a) == {b \in Referenced(l) \ {a} : SharedEvents(l, a, b) # {}}

\* the neighbours of a of a's type that are born in a's last event
SplitTargets(l, a) ==
    {b \in LogNeighbours(l, a) :
        /\ LogType(l, b) = LogType(l, a)
        /\ First(LogLifeline(l, b)) = Last(LogLifeline(l, a))}

\* C12: with SPLIT selected, for every object a with last event e and C the
\* phase-1 neighbours of a's type whose first event is e: if |C| > 1 exactly
\* the pairs (a,b), b in C, have SPLIT evidence, which is {e}; if |C| <= 1 no
\* pair with source a has SPLIT evidence.
C12_SplitRule ==
    (Finished /\ "SPLIT" \in relations) =>
        \A a \in Nodes(ocdg) : \A b \in Nodes(ocdg) :
            /\ HasEvidence(ocdg, a, b, "SPLIT")
                  <=> (Cardinality(SplitTargets(log, a)) > 1
                       /\ b \in SplitTargets(log, a))
            /\ HasEvidence(ocdg, a, b, "SPLIT") =>
                  Evidence(ocdg, a, b, "SPLIT") = {Last(LogLifeline(log, a))}

\* a finished run in which one object splits into two and another object has
\* exactly one conforming neighbour, hence no SPLIT evidence
C12_Witness ==
    /\ Finished
    /\ "SPLIT" \in relations
    /\ \E a \in Nodes(ocdg) :
          /\ Cardinality(SplitTargets(log, a)) = 2
          /\ \A b \in SplitTargets(log, a) : HasEvidence(ocdg, a, b, "SPLIT")
    /\ \E a \in Nodes(ocdg) :
          /\ Cardinality(SplitTargets(log, a)) = 1
          /\ \A b \in Nodes(ocdg) : ~HasEvidence(ocdg, a, b, "SPLIT")

\* C13: with INHERITANCE and CONSUMES selected, for every ordered pair (a,b)
\* of distinct objects sharing an event: if a's last event is b's first event,
\* exactly one of the two kinds has evidence on (a,b) - INHERITANCE for equal
\* types, CONSUMES for different types - and the evidence is {that event};
\* otherwise neither kind has evidence on (a,b).
C13_InheritanceOrConsumes ==
    (Finished /\ {"INHERITANCE", "CONSUMES"} \subseteq relations) =>
        \A a \in Nodes(ocdg) : \A b \in LogNeighbours(log, a) :
            LET e == Last(LogLifeline(log, a))
                inh == HasEvidence(ocdg, a, b, "INHERITANCE")
                con == HasEvidence(ocdg, a, b, "CONSUMES")
            IN  IF e = First(LogLifeline(log, b))
                THEN /\ inh <=> LogType(log, a) = LogType(log, b)
                     /\ con <=> LogType(log, a) # LogType(log, b)
                     /\ inh => Evidence(ocdg, a, b, "INHERITANCE") = {e}
                     /\ con => Evidence(ocdg, a, b, "CONSUMES") = {e}
                ELSE ~inh /\ ~con

\* a finished run with an INHERITANCE pair, a CONSUMES pair and an adjacent
\* pair whose lifelines do not meet end to start
C13_Witness ==
    /\ Finished
    /\ {"INHERITANCE", "CONSUMES"} \subseteq relations
    /\ \E a, b \in Nodes(ocdg) : HasEvidence(ocdg, a, b, "INHERITANCE")
    /\ \E a, b \in Nodes(ocdg) : HasEvidence(ocdg, a, b, "CONSUMES")
    /\ \E a \in Nodes(ocdg) : \E b \in LogNeighbours(log, a) :
          /\ Last(LogLifeline(log, a)) # First(LogLifeline(log, b))
          /\ ~HasEvidence(ocdg, a, b, "INHERITANCE")
          /\ ~HasEvidence(ocdg, a, b, "CONSUMES")

\* the lifeline PEELER walks for the pair a < b: the shorter one, a's on a tie
PeelerLifeline(l, a, b) ==
    IF Len(LogLifeline(l, a)) > Len(LogLifeline(l, b))
    THEN LogLifeline(l, b)
    ELSE LogLifeline(l, a)

\* some walked event has more than two objects, a and b among them
PeelerFails(l, a, b) ==
    \E e \in Range(PeelerLifeline(l, a, b)) :
        Cardinality(l.events[e]) > 2 /\ a \in l.events[e] /\ b \in l.events[e]

\* C14: with PEELER selected, for every pair a < b sharing an event and S the
\* shorter of the two lifelines (a's on equal length): PEELER evidence exists
\* on (a,b) and on (b,a) iff no event of S has more than two objects with a
\* and b among them, and the evidence is then the set of all events of S.
C14_PeelerRule ==
    (Finished /\ "PEELER" \in relations) =>
        \A a \in Nodes(ocdg) : \A b \in LogNeighbours(log, a) :
            a < b =>
                /\ HasEvidence(ocdg, a, b, "PEELER") <=> ~PeelerFails(log, a, b)
                /\ HasEvidence(ocdg, b, a, "PEELER") <=> ~PeelerFails(log, a, b)
                /\ ~PeelerFails(log, a, b) =>
                      /\ Evidence(ocdg, a, b, "PEELER")
                            = Range(PeelerLifeline(log, a, b))
                      /\ Evidence(ocdg, b, a, "PEELER")
                            = Range(PeelerLifeline(log, a, b))

\* a finished run whose PEELER evidence holds an event the other object of
\* the pair takes no part in
C14_Witness ==
    /\ Finished
    /\ "PEELER" \in relations
    /\ \E a \in Nodes(ocdg) : \E b \in LogNeighbours(log, a) :
          /\ a < b
          /\ HasEvidence(ocdg, b, a, "PEELER")
          /\ ~(Evidence(ocdg, b, a, "PEELER") \subseteq SharedEvents(log, a, b))

\* a finished run in which a three-object event denies a pair its PEELER edge
C14_WitnessFailed ==
    /\ Finished
    /\ "PEELER" \in relations
    /\ \E a \in Nodes(ocdg) : \E b \in LogNeighbours(log, a) :
          a < b /\ PeelerFails(log, a, b) /\ ~HasEvidence(ocdg, a, b, "PEELER")

\* none of the first and last events of a and b lies in the other's lifeline
EngagesHolds(l, a, b) ==
    /\ First(LogLifeline(l, a)) \notin Range(LogLifeline(l, b))
    /\ Last(LogLifeline(l, a)) \notin Range(LogLifeline(l, b))
    /\ First(LogLifeline(l, b)) \notin Range(LogLifeline(l, a))
    /\ Last(LogLifeline(l, b)) \notin Range(LogLifeline(l, a))

\* C15: with ENGAGES selected, for every pair a < b sharing an event: ENGAGES
\* evidence exists on (a,b) and on (b,a) iff none of a's first, a's last, b's
\* first and b's last event occurs in the other's lifeline, and the evidence
\* is then exactly the set of events common to both lifelines.
C15_EngagesRule ==
    (Finished /\ "ENGAGES" \in relations) =>
        \A a \in Nodes(ocdg) : \A b \in LogNeighbours(log, a) :
            a < b =>
                /\ HasEvidence(ocdg, a, b, "ENGAGES") <=> EngagesHolds(log, a, b)
                /\ HasEvidence(ocdg, b, a, "ENGAGES") <=> EngagesHolds(log, a, b)
                /\ EngagesHolds(log, a, b) =>
                      /\ Evidence(ocdg, a, b, "ENGAGES") = SharedEvents(log, a, b)
                      /\ Evidence(ocdg, b, a, "ENGAGES") = SharedEvents(log, a, b)

\* a finished run with ENGAGES evidence between two objects whose lifelines
\* start and end apart
C15_Witness ==
    /\ Finished
    /\ "ENGAGES" \in relations
    /\ \E a \in Nodes(ocdg) : \E b \in LogNeighbours(log, a) :
          /\ a < b
          /\ HasEvidence(ocdg, a, b, "ENGAGES")
          /\ HasEvidence(ocdg, b, a, "ENGAGES")
          /\ First(LogLifeline(log, a)) # First(LogLifeline(log, b))
          /\ Last(LogLifeline(log, a)) # Last(LogLifeline(log, b))

\* C16: with MERGE selected, for every ordered pair (a,b) of distinct objects
\* sharing an event: MERGE evidence exists on (a,b) iff a and b have the same
\* type and different last events, and the evidence is then {a's last event},
\* whether or not b takes part in that event.
C16_MergeRule ==
    (Finished /\ "MERGE" \in relations) =>
        \A a \in Nodes(ocdg) : \A b \in LogNeighbours(log, a) :
            /\ HasEvidence(ocdg, a, b, "MERGE")
                  <=> /\ LogType(log, a) = LogType(log, b)
                      /\ Last(LogLifeline(log, a)) # Last(LogLifeline(log, b))
            /\ HasEvidence(ocdg, a, b, "MERGE") =>
                  Evidence(ocdg, a, b, "MERGE") = {Last(LogLifeline(log, a))}

\* a finished run with MERGE evidence on (a,b) whose event b takes no part
\* in, and an adjacent pair without MERGE evidence
C16_Witness ==
    /\ Finished
    /\ "MERGE" \in relations
    /\ \E a \in Nodes(ocdg) : \E b \in LogNeighbours(log, a) :
          /\ HasEvidence(ocdg, a, b, "MERGE")
          /\ Last(LogLifeline(log, a)) \notin Range(LogLifeline(log, b))
    /\ \E a \in Nodes(ocdg) : \E b \in LogNeighbours(log, a) :
          ~HasEvidence(ocdg, a, b, "MERGE")

\* the index holds the INTERACTS and DESCENDANTS evidence that event e gives
PrimitiveEvidenceOf(o, l, e) ==
    \A a, b \in l.events[e] : a # b =>
        /\ e \in Evidence(o, a, b, "INTERACTS")
        /\ (LenAfter(l, a, e) > 1 /\ LenAfter(l, b, e) = 1)
              => e \in Evidence(o, a, b, "DESCENDANTS")

\* the pending list holds the INTERACTS and DESCENDANTS proposals of event e
PrimitivePendingOf(edges, l, e) ==
    \A a, b \in l.events[e] : a # b =>
        /\ <<a, b, SINGLE(e), "INTERACTS">> \in Range(edges)
        /\ (LenAfter(l, a, e) > 1 /\ LenAfter(l, b, e) = 1)
              => <<a, b, SINGLE(e), "DESCENDANTS">> \in Range(edges)

\* C17 as stated: after each event has been processed the index holds the
\* INTERACTS and DESCENDANTS evidence of every event processed so far.
C17_MergedImmediately ==
    pc # "aborted" =>
        \A e \in 1..(ev - 1) : PrimitiveEvidenceOf(ocdg, log, e)

\* C17: during ingestion the Primitive-tier proposals are only collected:
\* while events are being processed the index holds no pair and no evidence
\* and the proposals of every event processed so far are pending; they are
\* merged after the last event, so that from phase 2 on the index holds the
\* INTERACTS and DESCENDANTS evidence of every event.
C17_MergedAfterIngestion ==
    /\ pc = "ingest" =>
          /\ DOMAIN ocdg.irels = {}
          /\ Graph(ocdg).pairs = {}
          /\ \A e \in 1..(ev - 1) : PrimitivePendingOf(new_edges, log, e)
    /\ AfterIngestion =>
          \A e \in DOMAIN log.events : PrimitiveEvidenceOf(ocdg, log, e)

\* two events have been processed, a DESCENDANTS proposal among theirs is
\* pending and the index is still empty
C17_Witness ==
    /\ pc = "ingest"
    /\ ev > 2
    /\ \E i \in DOMAIN new_edges : new_edges[i][4] = "DESCENDANTS"
    /\ DOMAIN ocdg.irels = {}

\* the underlying edges of the ordered pair (a, b)
EdgesOf(o, a, b) ==
    {i \in DOMAIN o.net.edges :
        /\ o.net.nodes[o.net.edges[i][1]] = a
        /\ o.net.nodes[o.net.edges[i][2]] = b}

\* the events a proposal carries
EventsOf(eids) == IF eids[1] = "MULTI" THEN eids[2] ELSE {eids[2]}

\* the step is one returning call of apply_new_edges on the head proposal
ApplyStep ==
    /\ pc \in {"apply", "phase3"}
    /\ new_edges # << >>
    /\ pc' = pc

\* C18: one call of apply_new_edges for (src, tgt, kind, events) sets the
\* evidence of (src,tgt,kind) to its previous value (empty if absent) united
\* with events, leaves the evidence of every other triple, the node set and
\* all lifelines unchanged, and leaves exactly one underlying edge for
\* (src,tgt), creating it only if there was none; the same call applied again
\* changes nothing.
C18_ApplyFrame ==
    [][ApplyStep =>
          LET src == Head(new_edges)[1]
              tgt == Head(new_edges)[2]
              events == EventsOf(Head(new_edges)[3])
              kind == Head(new_edges)[4]
          IN  /\ HasEvidence(ocdg', src, tgt, kind)
              /\ Evidence(ocdg', src, tgt, kind)
                    = Evidence(ocdg, src, tgt, kind) \cup events
              /\ \A a, b \in AllOids : \A r \in Relations :
                    <<a, b, r>> # <<src, tgt, kind>> =>
                        /\ HasEvidence(ocdg', a, b, r) <=> HasEvidence(ocdg, a, b, r)
                        /\ Evidence(ocdg', a, b, r) = Evidence(ocdg, a, b, r)
              /\ ocdg'.net.nodes = ocdg.net.nodes
              /\ ocdg'.inodes = ocdg.inodes
              /\ ocdg'.node_attributes = ocdg.node_attributes
              /\ Cardinality(EdgesOf(ocdg', src, tgt)) = 1
              /\ ocdg'.net.edges =
                    IF EdgesOf(ocdg, src, tgt) # {}
                    THEN ocdg.net.edges
                    ELSE Append(ocdg.net.edges,
                                <<ocdg.inodes[src], ocdg.inodes[tgt], 0>>)
              /\ apply_new_edges(ocdg', <<src, tgt>>, Head(new_edges)[3], kind)
                    = ocdg'
       ]_vars

\* proposals have been merged and the next one adds an event to a triple
\* that already has evidence
C18_Witness ==
    /\ pc = "apply"
    /\ new_edges # << >>
    /\ HasEvidence(ocdg, Head(new_edges)[1], Head(new_edges)[2], Head(new_edges)[4])
    /\ ~(EventsOf(Head(new_edges)[3])
            \subseteq Evidence(ocdg, Head(new_edges)[1], Head(new_edges)[2],
                               Head(new_edges)[4]))

\* the ordered pairs of distinct objects that share at least one event
SharingPairs(l) ==
    {p \in Referenced(l) \X Referenced(l) :
        p[1] # p[2] /\ SharedEvents(l, p[1], p[2]) # {}}

\* C19: from the end of phase 1 to the final graph the set of directed edges
\* stays the set of ordered pairs of distinct objects sharing an event: it is
\* symmetric, each pair has one underlying edge and INTERACTS evidence, and
\* reconciliation adds no pair to it.
C19_NoNewPairs ==
    AfterIngestion =>
        /\ Graph(ocdg).pairs = SharingPairs(log)
        /\ DOMAIN ocdg.iedges = SharingPairs(log)
        /\ DOMAIN ocdg.irels = SharingPairs(log)
        /\ Len(ocdg.net.edges) = Cardinality(SharingPairs(log))
        /\ \A p \in Graph(ocdg).pairs :
              /\ <<p[2], p[1]>> \in Graph(ocdg).pairs
              /\ HasEvidence(ocdg, p[1], p[2], "INTERACTS")

\* a finished run in which reconciliation put evidence on the reverse of the
\* pair it evaluated, and two objects of the graph are not adjacent
C19_Witness ==
    /\ Finished
    /\ \E a, b \in Nodes(ocdg) :
          /\ a < b
          /\ HasEvidence(ocdg, b, a, "PEELER")
          /\ HasEvidence(ocdg, b, a, "COBIRTH")
    /\ \E a, b \in Nodes(ocdg) : a # b /\ <<a, b>> \notin Graph(ocdg).pairs

\* the targets of the SPLIT edges of source a
SplitEdges(o, a) == {b \in Nodes(o) : HasEvidence(o, a, b, "SPLIT")}

\* C20: with SPLIT and INHERITANCE selected, every ordered pair (a,b) with
\* SPLIT evidence in the final graph has INHERITANCE evidence too, both
\* evidence sets being {a's last event}; and no object is the source of
\* exactly one SPLIT edge.
C20_SplitImpliesInheritance ==
    (Finished /\ {"SPLIT", "INHERITANCE"} \subseteq relations) =>
        \A a \in Nodes(ocdg) :
            /\ \A b \in SplitEdges(ocdg, a) :
                  /\ HasEvidence(ocdg, a, b, "INHERITANCE")
                  /\ Evidence(ocdg, a, b, "SPLIT") = {Last(Lifeline(ocdg, a))}
                  /\ Evidence(ocdg, a, b, "INHERITANCE") = {Last(Lifeline(ocdg, a))}
            /\ Cardinality(SplitEdges(ocdg, a)) # 1

\* a finished run in which one object is the source of two SPLIT edges and
\* another has INHERITANCE evidence to its only successor, without SPLIT
C20_Witness ==
    /\ Finished
    /\ {"SPLIT", "INHERITANCE"} \subseteq relations
    /\ \E a \in Nodes(ocdg) : Cardinality(SplitEdges(ocdg, a)) = 2
    /\ \E a, b \in Nodes(ocdg) :
          /\ HasEvidence(ocdg, a, b, "INHERITANCE")
          /\ SplitEdges(ocdg, a) = {}

====
